---- MODULE Spec2Model ----
(***************************************************************************)
(* neuro-viz: a model of the repository's entry points.  One run of one   *)
(* entry point is a sequence of steps; every step is one action, named    *)
(* after the function (or the library call of the block) it is translated *)
(* from.  Library calls (VTK, SimpleITK, NiBabel, MNE) are modelled by    *)
(* what the code relies on: a volume is a row of voxels, a surface a row  *)
(* of points, an image carries the list of filters applied to it.         *)
(***************************************************************************)
EXTENDS Integers, Sequences, FiniteSets, TLC

VARIABLES
    script,       \* the entry point this run executes
    pc,           \* index into Steps(script) of the step to execute next
    status,       \* "running", "done" (ran off the end) or "aborted" (exception)
    err,          \* the exception that aborted the run
    trace,        \* names of the blocks that have executed, in order
    printed,      \* console lines that matter: the [ERROR] and final lines
    failures,     \* failures the code has met so far (a raise, a failed check)
    fallbacks,    \* number of default values substituted for a failed result
    args,         \* parameters and file facts the run has read so far
    reader,       \* output of the volume reader
    mask,         \* output of vtkImageThreshold
    iso10,        \* ten times the isovalue handed to marching cubes
    surface,      \* the polydata handle passed from step to step
    lookups,      \* what the closest-point lookup returned, per surface point
    image,        \* the SimpleITK image handle passed from step to step
    window,       \* TRUE while a render window's event loop is running
    closedCount,  \* number of windows the user has closed
    opacity,      \* opacity of the GUI's surface actor, in percent
    files,        \* files written by the run
    writers,      \* writer objects created, in creation order
    readerCalls,  \* paths a library reader was invoked on, in call order
    plots         \* number of matplotlib / MNE figures shown

ctl == <<pc, status, err, trace, printed>>

data == <<reader, mask, iso10, surface, lookups, image>>

effects == <<window, closedCount, opacity, files, writers, readerCalls, plots>>

vars == <<script, ctl, failures, fallbacks, args, data, effects>>

----------------------------------------------------------------------------
(* Bounds of the model *)

MaxVoxels == 3

Intensities == {0, 20, 50, 80, 100}

Volumes == UNION {[1..n -> Intensities] : n \in 1..MaxVoxels}

----------------------------------------------------------------------------
(* Values *)

\* a dataset: has = FALSE when the point data holds no scalars array
NoData == [has |-> FALSE, v |-> <<>>]

Data(values) == [has |-> TRUE, v |-> values]

NoErr == [exc |-> "none", cond |-> "none", site |-> "none", origin |-> "none"]

NoSurface == [pts |-> <<>>, scalars |-> NoData, ops |-> <<>>]

\* an image: pixel i has the value px[i] / den; dir holds the signs of the
\* elements 0, 4 and 8 of the direction matrix
NoImage == [px |-> <<>>, den |-> 1, pixel |-> "none", dir |-> <<1, 1, 1>>, ops |-> <<>>]

NoArgs ==
    [exists |-> TRUE, lo |-> 0, hi |-> 0, fmt |-> "none", normalize |-> FALSE,
     view |-> "none", oriented |-> FALSE, clear |-> FALSE, missing |-> {},
     ndim |-> 0, fifth |-> 0, kinds |-> <<>>]

T1Path == "preprocessed_t1_brain.nii.gz"

RawT1Path == "sub-001_ses-001_acq-highres_T1w.nii.gz"

SurfacePath == "reconstructed_brain_surface.vtk"

RECURSIVE SeqMin(_)
SeqMin(s) ==
    IF Len(s) = 1 THEN s[1]
    ELSE LET m == SeqMin(Tail(s)) IN IF s[1] < m THEN s[1] ELSE m

RECURSIVE SeqMax(_)
SeqMax(s) ==
    IF Len(s) = 1 THEN s[1]
    ELSE LET m == SeqMax(Tail(s)) IN IF s[1] > m THEN s[1] ELSE m

Range(s) == {s[i] : i \in 1..Len(s)}

----------------------------------------------------------------------------
(* The step lists of the entry points, in source order *)

\* the steps of align_brain_t1_surface with the surface saved before the overlay
\* is shown
AlignStepsSavingFirst ==
    << "load_t1_image", "segment_t1_image", "align_generate_surface",
       "save_surface_to_file", "overlay_t1_and_surface" >>

AlignSteps ==
    << "load_t1_image", "segment_t1_image", "align_generate_surface",
       "overlay_t1_and_surface", "save_surface_to_file" >>

SurfrecSteps ==
    << "load_nifti", "segment_data", "calculate_dynamic_isovalue",
       "generate_surface", "apply_laplacian_smoothing", "fill_holes",
       "remove_small_components", "smooth_surface", "visualize_with_vtk[1]",
       "export_surface", "visualize_with_vtk[2]" >>

MapFmriSteps ==
    << "load_fmri_image", "load_surface", "map_fmri_to_surface", "apply_smoothing",
       "enhanced_color_mapping", "visualize_fmri_on_surface", "save_mapped_surface" >>

PreprocessSteps ==
    << "ReadImage", "Cast", "N4BiasFieldCorrection", "RescaleIntensity",
       "AdaptiveHistogramEqualization", "Bilateral", "WriteImage" >>

ValidationSteps ==
    << "ReadImage", "Cast", "N4BiasFieldCorrection", "Bilateral", "WriteImage" >>

ValidateSteps ==
    << "validate_ReadImage", "check_and_normalize_intensity", "check_orientation",
       "check_edge_clarity", "final_verification" >>

LoadDataSteps ==
    << "check_files", "load_t1", "load_fmri[1]", "load_fmri[2]",
       "load_eeg[1]", "load_eeg[2]", "load_eeg[3]", "print_completed" >>

GuiSteps == << "setup_surface", "app_exec" >>

VisualizeSteps ==
    << "visualize_t1", "visualize_fmri[1]", "visualize_fmri[2]",
       "visualize_eeg[1]", "visualize_eeg[2]", "visualize_eeg[3]" >>

Steps(s) ==
    CASE s = "align_brain_t1_surface" -> AlignSteps
      [] s = "surface_reconstruction" -> SurfrecSteps
      [] s = "map_fmri_and_brain" -> MapFmriSteps
      [] s = "preprocess_t1" -> PreprocessSteps
      [] s = "preprocess_t1_with_validation" -> ValidationSteps
      [] s = "validate_t1" -> ValidateSteps
      [] s = "load_data" -> LoadDataSteps
      [] s = "visualize_validate" -> VisualizeSteps
      [] s = "gui_visualization" -> GuiSteps

\* the entry points with try/except Exception were only the preprocessing one
HandledInPreprocessingOnly(s) == s = "preprocess_t1_with_validation"

\* TRUE for the entry points whose steps run inside try/except Exception
Handled(s) ==
    s \in {"align_brain_t1_surface", "surface_reconstruction", "map_fmri_and_brain",
           "preprocess_t1_with_validation"}

Scripts ==
    {"align_brain_t1_surface", "surface_reconstruction", "map_fmri_and_brain",
     "preprocess_t1", "preprocess_t1_with_validation", "validate_t1", "load_data",
     "visualize_validate", "gui_visualization"}

----------------------------------------------------------------------------
(* Control *)

At(step) ==
    /\ status = "running"
    /\ pc <= Len(Steps(script))
    /\ Steps(script)[pc] = step

\* the step returned normally, having executed `blocks`: control passes to
\* the next statement
Advance(blocks) ==
    /\ pc' = pc + 1
    /\ status' = IF pc = Len(Steps(script)) THEN "done" ELSE "running"
    /\ trace' = trace \o blocks
    /\ err' = err
    /\ printed' = printed

\* a raise whose exception is swallowed where it is raised (except: pass): the
\* run goes on with the next step
RaiseAndContinue(step, exc, cond, origin) ==
    /\ pc' = pc + 1
    /\ status' = IF pc = Len(Steps(script)) THEN "done" ELSE "running"
    /\ trace' = Append(trace, step)
    /\ err' = [exc |-> exc, cond |-> cond, site |-> step, origin |-> origin]
    /\ printed' = Append(printed, "[ERROR]")
    /\ failures' = Append(failures, [site |-> step, cond |-> cond])

\* the step raised: the rest of the run is skipped; the handler of __main__,
\* when there is one, prints the message
Raise(step, exc, cond, origin) ==
    /\ pc' = pc
    /\ status' = "aborted"
    /\ trace' = Append(trace, step)
    /\ err' = [exc |-> exc, cond |-> cond, site |-> step, origin |-> origin]
    /\ printed' = IF Handled(script) THEN Append(printed, "[ERROR]") ELSE printed
    /\ failures' = Append(failures, [site |-> step, cond |-> cond])

----------------------------------------------------------------------------
(* Library behaviour the steps rely on *)

\* vtkImageThreshold with ThresholdBetween(lo, hi), in-value and out-value
ImageThreshold(vol, lo, hi, inValue, outValue) ==
    IF ~vol.has THEN NoData
    ELSE Data([i \in 1..Len(vol.v) |->
                 IF lo <= vol.v[i] /\ vol.v[i] <= hi THEN inValue ELSE outValue])

\* vtkMarchingCubes on a row of voxels: one point between two neighbours
\* that lie on different sides of the isovalue (v >= iso is inside)
MarchingCubes(m, isoTimes10) ==
    IF ~m.has THEN <<>>
    ELSE LET inside(i) == 10 * m.v[i] >= isoTimes10
             cross == {i \in 1..(Len(m.v) - 1) : inside(i) # inside(i + 1)}
             nth[k \in 0..Cardinality(cross)] ==
                 IF k = 0 THEN 0
                 ELSE CHOOSE i \in cross :
                        /\ i > nth[k - 1]
                        /\ \A j \in cross : j > nth[k - 1] => i <= j
         IN [k \in 1..Cardinality(cross) |-> 2 * nth[k] + 1]

\* a polydata filter: the output is a new dataset carrying the input's points
\* and point data
Filtered(poly, op) == [poly EXCEPT !.ops = Append(@, op)]

\* vtkSmoothPolyDataFilter, vtkWindowedSincPolyDataFilter: an input without
\* points is reported ("No data to smooth") and the output is left empty
Smoothed(poly, op) ==
    IF Len(poly.pts) = 0
    THEN [pts |-> <<>>, scalars |-> NoData, ops |-> Append(poly.ops, op)]
    ELSE Filtered(poly, op)

\* the output of vtkMarchingCubes: the points, each carrying the isovalue
Isosurface(m, isoTimes10) ==
    LET pts == MarchingCubes(m, isoTimes10) IN
      [pts |-> pts, scalars |-> Data([i \in 1..Len(pts) |-> isoTimes10]),
       ops |-> <<"vtkMarchingCubes">>]

\* render_window.Render(); interactor.Start(): the event loop starts, and the
\* call does not return until the user closes the window
StartInteractor ==
    /\ ~window
    /\ window' = TRUE
    /\ UNCHANGED <<script, ctl, failures, fallbacks, args, data,
                   closedCount, opacity, files, writers, readerCalls, plots>>

\* the user closes the window: interactor.Start() returns
CloseWindow ==
    /\ status = "running"
    /\ window
    /\ window' = FALSE
    /\ closedCount' = closedCount + 1
    /\ Advance(<<Steps(script)[pc]>>)
    /\ UNCHANGED <<script, failures, fallbacks, args, data, opacity, files, writers,
                   readerCalls, plots>>

\* the thresholding of segment_t1_image and segment_data with the in-range
\* values passed through, as without SetInValue(1)
SegmentKeepingInValues(vol, lo, hi) ==
    IF ~vol.has THEN NoData
    ELSE Data([i \in 1..Len(vol.v) |->
                 IF lo <= vol.v[i] /\ vol.v[i] <= hi THEN vol.v[i] ELSE 0])

\* ThresholdBetween(lo, hi); SetInValue(1); SetOutValue(0); Update()
Segment(vol, lo, hi) == ImageThreshold(vol, lo, hi, 1, 0)

LowerT1 == 20

UpperT1 == 80

LowerDefault == 30

UpperDefault == 60

\* the threshold pairs segment_t1_image and segment_data are called with: the
\* pair __main__ of align_brain_t1_surface passes, and the defaults of segment_data
ThresholdPairs == {<<LowerT1, UpperT1>>, <<LowerDefault, UpperDefault>>}

----------------------------------------------------------------------------
(* align_brain_t1_surface.py *)

load_t1_image ==
    /\ At("load_t1_image")
    /\ \E present \in BOOLEAN :
         /\ args' = [args EXCEPT !.exists = present]
         /\ IF ~present
            THEN /\ Raise("load_t1_image", "FileNotFoundError", "file_not_found", "raise")
                 /\ UNCHANGED <<reader, readerCalls>>
            ELSE /\ \E vol \in Volumes : reader' = Data(vol)
                 /\ readerCalls' = Append(readerCalls, T1Path)
                 /\ Advance(<<"load_t1_image">>)
                 /\ UNCHANGED failures
    /\ UNCHANGED <<script, fallbacks, mask, iso10, surface, lookups, image,
                   window, closedCount, opacity, files, writers, plots>>

segment_t1_image ==
    /\ At("segment_t1_image")
    /\ \E pair \in ThresholdPairs :
         /\ args' = [args EXCEPT !.lo = pair[1], !.hi = pair[2]]
         /\ mask' = Segment(reader, pair[1], pair[2])
    /\ Advance(<<"segment_t1_image">>)
    /\ UNCHANGED <<script, failures, fallbacks, reader, iso10, surface, lookups,
                   image, effects>>

align_generate_surface ==
    /\ At("align_generate_surface")
    /\ iso10' = 5
    /\ surface' = Smoothed(Isosurface(mask, 5), "vtkSmoothPolyDataFilter")
    /\ Advance(<<"align_generate_surface">>)
    /\ UNCHANGED <<script, failures, fallbacks, args, reader, mask, lookups,
                   image, effects>>

overlay_t1_and_surface ==
    /\ At("overlay_t1_and_surface")
    /\ StartInteractor

save_surface_to_file ==
    /\ At("save_surface_to_file")
    /\ files' = files \cup {[path |-> SurfacePath, writer |-> "vtkPolyDataWriter",
                             content |-> surface]}
    /\ writers' = Append(writers, "vtkPolyDataWriter")
    /\ Advance(<<"save_surface_to_file">>)
    /\ UNCHANGED <<script, failures, fallbacks, args, data,
                   window, closedCount, opacity, readerCalls, plots>>

----------------------------------------------------------------------------
(* surface_reconstruction.py *)

\* no existence check: the reader is invoked on the path whatever it names,
\* and a missing file leaves its output empty
load_nifti ==
    /\ At("load_nifti")
    /\ \E present \in BOOLEAN :
         /\ args' = [args EXCEPT !.exists = present]
         /\ IF present
            THEN \E vol \in Volumes : reader' = Data(vol)
            ELSE reader' = NoData
    /\ readerCalls' = Append(readerCalls, T1Path)
    /\ Advance(<<"load_nifti">>)
    /\ UNCHANGED <<script, failures, fallbacks, mask, iso10, surface, lookups,
                   image, window, closedCount, opacity, files, writers, plots>>

segment_data ==
    /\ At("segment_data")
    /\ \E pair \in ThresholdPairs :
         /\ args' = [args EXCEPT !.lo = pair[1], !.hi = pair[2]]
         /\ mask' = Segment(reader, pair[1], pair[2])
    /\ Advance(<<"segment_data">>)
    /\ UNCHANGED <<script, failures, fallbacks, reader, iso10, surface, lookups,
                   image, effects>>

\* ten times the isovalue: (scalar_range[0] + scalar_range[1]) * 0.6
DynamicIsovalue10(lo, hi) == (lo + hi) * 6

calculate_dynamic_isovalue ==
    /\ At("calculate_dynamic_isovalue")
    /\ IF ~mask.has
       THEN /\ Raise("calculate_dynamic_isovalue", "ValueError", "missing_scalars", "raise")
            /\ UNCHANGED iso10
       ELSE /\ iso10' = DynamicIsovalue10(SeqMin(mask.v), SeqMax(mask.v))
            /\ Advance(<<"calculate_dynamic_isovalue">>)
            /\ UNCHANGED failures
    /\ UNCHANGED <<script, fallbacks, args, reader, mask, surface, lookups,
                   image, effects>>

generate_surface ==
    /\ At("generate_surface")
    /\ LET polydata == Isosurface(mask, iso10) IN
         IF Len(polydata.pts) = 0
         THEN /\ Raise("generate_surface", "ValueError", "no_surface", "raise")
              /\ UNCHANGED surface
         ELSE /\ surface' = polydata
              /\ Advance(<<"generate_surface">>)
              /\ UNCHANGED failures
    /\ UNCHANGED <<script, fallbacks, args, reader, mask, iso10, lookups,
                   image, effects>>

apply_laplacian_smoothing ==
    /\ At("apply_laplacian_smoothing")
    /\ surface' = Smoothed(surface, "vtkSmoothPolyDataFilter")
    /\ Advance(<<"apply_laplacian_smoothing">>)
    /\ UNCHANGED <<script, failures, fallbacks, args, reader, mask, iso10,
                   lookups, image, effects>>

fill_holes ==
    /\ At("fill_holes")
    /\ surface' = Filtered(surface, "vtkFillHolesFilter")
    /\ Advance(<<"fill_holes">>)
    /\ UNCHANGED <<script, failures, fallbacks, args, reader, mask, iso10,
                   lookups, image, effects>>

\* vtkConnectivityFilter, largest region: the points of one connected part
remove_small_components ==
    /\ At("remove_small_components")
    /\ \E first \in 1..Len(surface.pts) : \E last \in first..Len(surface.pts) :
         surface' = Filtered([surface EXCEPT
                                  !.pts = SubSeq(@, first, last),
                                  !.scalars = Data(SubSeq(@.v, first, last))],
                             "vtkConnectivityFilter")
    /\ Advance(<<"remove_small_components">>)
    /\ UNCHANGED <<script, failures, fallbacks, args, reader, mask, iso10,
                   lookups, image, effects>>

smooth_surface ==
    /\ At("smooth_surface")
    /\ surface' = Smoothed(surface, "vtkWindowedSincPolyDataFilter")
    /\ Advance(<<"smooth_surface">>)
    /\ UNCHANGED <<script, failures, fallbacks, args, reader, mask, iso10,
                   lookups, image, effects>>

visualize_with_vtk ==
    /\ \/ At("visualize_with_vtk[1]")
       \/ At("visualize_with_vtk[2]")
    /\ StartInteractor

ExportFormats == {"vtk", "VTK", "stl", "Stl", "obj"}

\* the format compared as it was passed, without str.lower()
AsPassed(s) == s

\* str.lower() on the formats of the model
Lower(s) ==
    CASE s \in {"vtk", "VTK"} -> "vtk"
      [] s \in {"stl", "Stl"} -> "stl"
      [] OTHER -> s

\* the writer class export_surface creates for a lower-cased format
WriterFor(fmt) == IF fmt = "vtk" THEN "vtkPolyDataWriter" ELSE "vtkSTLWriter"

\* file_format is the parameter of export_surface; __main__ passes "vtk"
export_surface ==
    /\ At("export_surface")
    /\ \E fmt \in ExportFormats :
         /\ args' = [args EXCEPT !.fmt = fmt]
         /\ IF Lower(fmt) \in {"vtk", "stl"}
            THEN /\ writers' = Append(writers, WriterFor(Lower(fmt)))
                 /\ files' = files \cup
                       {[path |-> SurfacePath, writer |-> WriterFor(Lower(fmt)),
                         content |-> surface]}
                 /\ Advance(<<"export_surface">>)
                 /\ UNCHANGED failures
            ELSE /\ Raise("export_surface", "ValueError", "unsupported_format", "raise")
                 /\ UNCHANGED <<files, writers>>
    /\ UNCHANGED <<script, fallbacks, data, window, closedCount, opacity, readerCalls, plots>>

----------------------------------------------------------------------------
(* map_fmri_and_brain.py *)

MaxFmri == 2

MaxPoints == 2

FmriValues == {0, 7, 16777217}

Coords == {0, 1, 3}

FmriVolumes == UNION {[1..n -> FmriValues] : n \in 1..MaxFmri}

PointRows == UNION {[1..n -> Coords] : n \in 0..MaxPoints}

FmriPath == "filtered_eoec_func_data.nii.gz"

MappedPath == "mapped_fmri_to_surface.vtk"

\* bits of the significand of a 32-bit float, the element type of vtkFloatArray
FloatBits == 24

RECURSIVE Pow2(_)
Pow2(n) == IF n = 0 THEN 1 ELSE 2 * Pow2(n - 1)

RECURSIVE Ulp(_)
Ulp(a) == IF a < Pow2(FloatBits) THEN 1 ELSE 2 * Ulp(a \div 2)

\* vtkFloatArray.InsertNextValue(v): v is stored as the nearest 32-bit float
\* (ties to even); v >= 0
ToFloat32(v) ==
    LET u == Ulp(v)
        q == v \div u
        r == v % u
    IN  IF 2 * r < u THEN q * u
        ELSE IF 2 * r > u THEN (q + 1) * u
        ELSE IF q % 2 = 0 THEN q * u ELSE (q + 1) * u

Abs(x) == IF x < 0 THEN 0 - x ELSE x

\* the image's voxel k lies at coordinate 2 * (k - 1)
VoxelCoord(k) == 2 * (k - 1)

\* vtkPointLocator.FindClosestPoint: the index (from 1 here) of the voxel
\* nearest to the point, the lowest such index on a tie
FindClosestPoint(n, p) ==
    CHOOSE k \in 1..n :
        /\ \A j \in 1..n : Abs(VoxelCoord(k) - p) <= Abs(VoxelCoord(j) - p)
        /\ \A j \in 1..(k - 1) : Abs(VoxelCoord(j) - p) > Abs(VoxelCoord(k) - p)

load_fmri_image ==
    /\ At("load_fmri_image")
    /\ \E present \in BOOLEAN :
         /\ args' = [args EXCEPT !.exists = present]
         /\ IF ~present
            THEN /\ Raise("load_fmri_image", "FileNotFoundError", "file_not_found", "raise")
                 /\ UNCHANGED <<reader, readerCalls>>
            ELSE /\ readerCalls' = Append(readerCalls, FmriPath)
                 /\ \E out \in {NoData} \cup {Data(v) : v \in FmriVolumes} :
                      /\ reader' = out
                      /\ IF ~out.has
                         THEN Raise("load_fmri_image", "ValueError", "missing_scalars", "raise")
                         ELSE Advance(<<"load_fmri_image">>) /\ UNCHANGED failures
    /\ UNCHANGED <<script, fallbacks, mask, iso10, surface, lookups, image,
                   window, closedCount, opacity, files, writers, plots>>

\* vtkPolyDataReader on surface_path, without an existence check: a missing
\* file leaves the polydata empty
load_surface ==
    /\ At("load_surface")
    /\ \E pts \in PointRows :
         surface' = [pts |-> pts, scalars |-> NoData, ops |-> <<"vtkPolyDataReader">>]
    /\ readerCalls' = Append(readerCalls, SurfacePath)
    /\ Advance(<<"load_surface">>)
    /\ UNCHANGED <<script, failures, fallbacks, args, reader, mask, iso10, lookups,
                   image, window, closedCount, opacity, files, writers, plots>>

\* what the lookups of one call return: the voxel index for point i, or 0
\* where the lookup raised RuntimeError
Lookups(fmri, pts, raised) ==
    [i \in 1..Len(pts) |->
        IF i \in raised THEN 0 ELSE FindClosestPoint(Len(fmri.v), pts[i])]

\* the loop with InsertNextValue inside the try block: a point whose lookup
\* raised gets no value
MappedScalarsSkippingRaised(fmri, found) ==
    LET ok == SelectSeq(found, LAMBDA k : k # 0) IN
      [i \in 1..Len(ok) |-> ToFloat32(fmri.v[ok[i]])]

\* the loop of map_fmri_to_surface: one InsertNextValue per point, in order
MappedScalars(fmri, found) ==
    [i \in 1..Len(found) |->
        IF found[i] = 0 THEN 0 ELSE ToFloat32(fmri.v[found[i]])]

\* the mapping with the scalars set on a deep copy of the surface, which is
\* returned in place of the surface passed in
map_fmri_to_surface_copy ==
    /\ At("map_fmri_to_surface")
    /\ \E raised \in SUBSET (1..Len(surface.pts)) :
         LET found == Lookups(reader, surface.pts, raised) IN
           /\ lookups' = found
           /\ surface' = [Filtered(surface, "DeepCopy") EXCEPT
                              !.scalars = Data(MappedScalars(reader, found))]
           /\ fallbacks' = fallbacks + Cardinality(raised)
           /\ failures' = failures \o
                  [i \in 1..(IF raised = {} THEN 0 ELSE 1) |->
                      [site |-> "map_fmri_to_surface", cond |-> "lookup_failed"]]
    /\ Advance(<<"map_fmri_to_surface">>)
    /\ UNCHANGED <<script, args, reader, mask, iso10, image, effects>>

map_fmri_to_surface ==
    /\ At("map_fmri_to_surface")
    /\ \E raised \in SUBSET (1..Len(surface.pts)) :
         LET found == Lookups(reader, surface.pts, raised) IN
           /\ lookups' = found
           /\ surface' = [surface EXCEPT !.scalars = Data(MappedScalars(reader, found))]
           /\ fallbacks' = fallbacks + Cardinality(raised)
           /\ failures' = failures \o
                  [i \in 1..(IF raised = {} THEN 0 ELSE 1) |->
                      [site |-> "map_fmri_to_surface", cond |-> "lookup_failed"]]
    /\ Advance(<<"map_fmri_to_surface">>)
    /\ UNCHANGED <<script, args, reader, mask, iso10, image, effects>>

apply_smoothing ==
    /\ At("apply_smoothing")
    /\ surface' = Smoothed(surface, "vtkWindowedSincPolyDataFilter")
    /\ Advance(<<"apply_smoothing">>)
    /\ UNCHANGED <<script, failures, fallbacks, args, reader, mask, iso10,
                   lookups, image, effects>>

\* reads the scalar range of the surface; map_fmri_to_surface has set one
enhanced_color_mapping ==
    /\ At("enhanced_color_mapping")
    /\ IF ~surface.scalars.has
       THEN Raise("enhanced_color_mapping", "AttributeError", "none_dereferenced", "runtime")
       ELSE Advance(<<"enhanced_color_mapping">>) /\ UNCHANGED failures
    /\ UNCHANGED <<script, fallbacks, args, data, effects>>

visualize_fmri_on_surface ==
    /\ At("visualize_fmri_on_surface")
    /\ StartInteractor

save_mapped_surface ==
    /\ At("save_mapped_surface")
    /\ files' = files \cup {[path |-> MappedPath, writer |-> "vtkPolyDataWriter",
                             content |-> surface]}
    /\ writers' = Append(writers, "vtkPolyDataWriter")
    /\ pc' = pc + 1
    /\ status' = "done"
    /\ trace' = Append(trace, "save_mapped_surface")
    /\ printed' = Append(printed, "[INFO] Successfully exported")
    /\ UNCHANGED <<script, err, failures, fallbacks, args, data,
                   window, closedCount, opacity, readerCalls, plots>>

----------------------------------------------------------------------------
(* preprocess_t1.py: preprocess_t1 and preprocess_t1_with_validation *)

OutputPath == "preprocessed_t1.nii.gz"

PixelTypes == {"sitkFloat32", "sitkInt16"}

Applied(img, op) == [img EXCEPT !.ops = Append(@, op)]

\* the existence check and sitk.ReadImage of both functions; normalize is their
\* parameter (True by default)
ReadImage ==
    /\ At("ReadImage")
    /\ \E present \in BOOLEAN, normalize \in BOOLEAN :
         /\ args' = [args EXCEPT !.exists = present, !.normalize = normalize]
         /\ IF ~present
            THEN /\ Raise("ReadImage", "FileNotFoundError", "file_not_found", "raise")
                 /\ UNCHANGED <<image, readerCalls>>
            ELSE /\ \E pixel \in PixelTypes :
                      image' = [NoImage EXCEPT !.pixel = pixel, !.ops = <<"ReadImage">>]
                 /\ readerCalls' = Append(readerCalls, RawT1Path)
                 /\ Advance(<<"ReadImage">>)
                 /\ UNCHANGED failures
    /\ UNCHANGED <<script, fallbacks, reader, mask, iso10, surface, lookups,
                   window, closedCount, opacity, files, writers, plots>>

NeedsCast(img) == img.pixel # "sitkFloat32"

Cast ==
    /\ At("Cast")
    /\ IF NeedsCast(image)
       THEN /\ image' = Applied([image EXCEPT !.pixel = "sitkFloat32"], "Cast")
            /\ Advance(<<"Cast">>)
       ELSE /\ image' = image
            /\ Advance(<<>>)
    /\ UNCHANGED <<script, failures, fallbacks, args, reader, mask, iso10, surface,
                   lookups, effects>>

N4BiasFieldCorrection ==
    /\ At("N4BiasFieldCorrection")
    /\ image' = Applied(image, "N4BiasFieldCorrection")
    /\ Advance(<<"N4BiasFieldCorrection">>)
    /\ UNCHANGED <<script, failures, fallbacks, args, reader, mask, iso10, surface,
                   lookups, effects>>

\* preprocess_t1 only: RescaleIntensityImageFilter to [0, 255], if normalize
RescaleIntensity ==
    /\ At("RescaleIntensity")
    /\ IF args.normalize
       THEN /\ image' = Applied(image, "RescaleIntensity[0,255]")
            /\ Advance(<<"RescaleIntensity">>)
       ELSE /\ image' = image
            /\ Advance(<<>>)
    /\ UNCHANGED <<script, failures, fallbacks, args, reader, mask, iso10, surface,
                   lookups, effects>>

\* the equalization indented under if normalize
AdaptiveHistogramEqualizationUnderIf ==
    /\ At("AdaptiveHistogramEqualization")
    /\ IF args.normalize
       THEN Advance(<<"AdaptiveHistogramEqualization">>)
       ELSE Advance(<<>>)
    /\ UNCHANGED <<script, failures, fallbacks, args, data, effects>>

\* preprocess_t1 only: the contrast-enhanced image is computed and not used
AdaptiveHistogramEqualization ==
    /\ At("AdaptiveHistogramEqualization")
    /\ Advance(<<"AdaptiveHistogramEqualization">>)
    /\ UNCHANGED <<script, failures, fallbacks, args, data, effects>>

Bilateral ==
    /\ At("Bilateral")
    /\ image' = Applied(image, "Bilateral")
    /\ Advance(<<"Bilateral">>)
    /\ UNCHANGED <<script, failures, fallbacks, args, reader, mask, iso10, surface,
                   lookups, effects>>

WriteImage ==
    /\ At("WriteImage")
    /\ files' = files \cup {[path |-> OutputPath, writer |-> "sitk.WriteImage",
                             content |-> image]}
    /\ Advance(<<"WriteImage">>)
    /\ UNCHANGED <<script, failures, fallbacks, args, data,
                   window, closedCount, opacity, writers, readerCalls, plots>>

----------------------------------------------------------------------------
(* validate_t1.py *)

Pixels == {-10, 0, 100, 300}

PixelRows == UNION {[1..n -> Pixels] : n \in 1..MaxVoxels}

Directions == {<<1, 1, 1>>, <<-1, 1, 1>>, <<1, -1, 1>>, <<1, 1, -1>>}

Views == {"axial", "sagittal", "coronal", "oblique"}

LowerBound == 0

UpperBound == 255

\* sitk.ReadImage without an existence check: the library raises on a missing file
validate_ReadImage ==
    /\ At("validate_ReadImage")
    /\ readerCalls' = Append(readerCalls, OutputPath)
    /\ \E present \in BOOLEAN :
         /\ args' = [args EXCEPT !.exists = present]
         /\ IF ~present
            THEN /\ Raise("validate_ReadImage", "RuntimeError", "file_not_found", "library")
                 /\ UNCHANGED image
            ELSE /\ \E px \in PixelRows, dir \in Directions :
                      image' = [px |-> px, den |-> 1, pixel |-> "sitkFloat32",
                                dir |-> dir, ops |-> <<"ReadImage">>]
                 /\ Advance(<<"validate_ReadImage">>)
                 /\ UNCHANGED failures
    /\ UNCHANGED <<script, fallbacks, reader, mask, iso10, surface, lookups,
                   window, closedCount, opacity, files, writers, plots>>

InBounds(img, lower, upper) ==
    /\ lower * img.den <= SeqMin(img.px)
    /\ SeqMax(img.px) <= upper * img.den

\* (img_array - min) / (max - min) * (upper - lower) + lower, as a new image:
\* the values over the common denominator max - min
Normalized(img, lower, upper) ==
    LET lo == SeqMin(img.px)
        hi == SeqMax(img.px)
    IN  [px |-> [i \in 1..Len(img.px) |->
                    (img.px[i] - lo) * (upper - lower) + lower * (hi - lo)],
         den |-> hi - lo,
         pixel |-> "sitkFloat64",
         dir |-> <<1, 1, 1>>,
         ops |-> Append(img.ops, "GetImageFromArray")]

\* a pixel of an image whose denominator is 0 is 0 / 0: numpy's true division
\* yields nan (with a RuntimeWarning, no exception)
IsNaN(img) == img.den = 0

check_and_normalize_intensity ==
    /\ At("check_and_normalize_intensity")
    /\ IF ~InBounds(image, LowerBound, UpperBound)
       THEN /\ image' = Normalized(image, LowerBound, UpperBound)
            /\ Advance(<<"check_and_normalize_intensity", "normalize">>)
       ELSE /\ image' = image
            /\ Advance(<<"check_and_normalize_intensity">>)
    /\ UNCHANGED <<script, failures, fallbacks, args, reader, mask, iso10, surface,
                   lookups, effects>>

\* check_orientation raising on an incorrect orientation instead of returning False
check_orientation_raising ==
    /\ At("check_orientation")
    /\ \E view \in Views :
         /\ args' = [args EXCEPT !.view = view]
         /\ IF view = "axial" /\ image.dir[3] > 0
            THEN Advance(<<"check_orientation">>) /\ UNCHANGED failures
            ELSE Raise("check_orientation", "ValueError", "incorrect_orientation", "raise")
    /\ UNCHANGED <<script, fallbacks, data, effects>>

\* view is the parameter of check_orientation; __main__ passes "axial"
check_orientation ==
    /\ At("check_orientation")
    /\ \E view \in Views :
         IF view \in {"axial", "sagittal", "coronal"}
         THEN /\ args' = [args EXCEPT
                    !.view = view,
                    !.oriented = CASE view = "axial" -> image.dir[3] > 0
                                   [] view = "sagittal" -> image.dir[1] > 0
                                   [] view = "coronal" -> image.dir[2] > 0]
              /\ Advance(<<"check_orientation">>)
              /\ UNCHANGED failures
         ELSE /\ args' = [args EXCEPT !.view = view]
              /\ Raise("check_orientation", "ValueError", "unsupported_view", "raise")
    /\ UNCHANGED <<script, fallbacks, data, effects>>

check_edge_clarity ==
    /\ At("check_edge_clarity")
    /\ \E clear \in BOOLEAN : args' = [args EXCEPT !.clear = clear]
    /\ plots' = plots + 1
    /\ Advance(<<"check_edge_clarity">>)
    /\ UNCHANGED <<script, failures, fallbacks, data,
                   window, closedCount, opacity, files, writers, readerCalls>>

final_verification ==
    /\ At("final_verification")
    /\ pc' = pc + 1
    /\ status' = "done"
    /\ trace' = Append(trace, "final_verification")
    /\ printed' = Append(printed, IF args.oriented /\ args.clear
                                  THEN "[SUCCESS]" ELSE "[FAILURE]")
    /\ UNCHANGED <<script, err, failures, fallbacks, args, data, effects>>

----------------------------------------------------------------------------
(* load_data.py *)

T1_FILES == <<RawT1Path>>

FMRI_FILES == <<"sub-001_ses-001_task-eoec_bold.nii.gz",
                "sub-001_ses-001_task-rest_bold.nii.gz">>

EEG_FILES == <<"01_EEG_fMRI_OCOA_GAC_with_events.edf",
               "01_EEG_fMRI_resting_EC_GAC_with_events.edf",
               "01_EEG_fMRI_resting_EO_GAC_with_events.edf">>

AllFiles == T1_FILES \o FMRI_FILES \o EEG_FILES

LoadFmriSteps == <<"load_fmri[1]", "load_fmri[2]">>

LoadEegSteps == <<"load_eeg[1]", "load_eeg[2]", "load_eeg[3]">>

Dimensions == {3, 4, 5}

\* sizes of the fifth dimension of 5-dimensional data
FifthSizes == {2, 3}

\* plt.imshow accepts an (M, N) array and an (M, N, 3) or (M, N, 4) array
ImshowAccepts(ndim, last) == ndim = 2 \/ (ndim = 3 /\ last \in {3, 4})

\* the existence check made on the T1 file only
check_t1_file_only ==
    /\ At("check_files")
    /\ \E missing \in SUBSET Range(AllFiles) :
         /\ args' = [args EXCEPT !.missing = missing]
         /\ IF missing \cap Range(T1_FILES) # {}
            THEN /\ pc' = Len(Steps(script)) + 1
                 /\ status' = "done"
                 /\ trace' = Append(trace, "check_files")
                 /\ printed' = Append(printed, "[ERROR] The following files were not found")
                 /\ failures' = Append(failures, [site |-> "check_files",
                                                  cond |-> "file_not_found"])
                 /\ err' = err
            ELSE /\ Advance(<<"check_files">>)
                 /\ UNCHANGED failures
    /\ UNCHANGED <<script, fallbacks, data, effects>>

\* missing_files = [f for f in ... if not os.path.exists(f)]; if missing_files: ...
check_files ==
    /\ At("check_files")
    /\ \E missing \in SUBSET Range(AllFiles) :
         /\ args' = [args EXCEPT !.missing = missing]
         /\ IF missing # {}
            THEN /\ pc' = Len(Steps(script)) + 1
                 /\ status' = "done"
                 /\ trace' = Append(trace, "check_files")
                 /\ printed' = Append(printed, "[ERROR] The following files were not found")
                 /\ failures' = Append(failures, [site |-> "check_files",
                                                  cond |-> "file_not_found"])
                 /\ err' = err
            ELSE /\ Advance(<<"check_files">>)
                 /\ UNCHANGED failures
    /\ UNCHANGED <<script, fallbacks, data, effects>>

load_t1 ==
    /\ At("load_t1")
    /\ readerCalls' = Append(readerCalls, T1_FILES[1])
    /\ plots' = plots + 1
    /\ Advance(<<"load_t1">>)
    /\ UNCHANGED <<script, failures, fallbacks, args, data, window, closedCount, opacity, files, writers>>

load_fmri ==
    /\ \E k \in 1..Len(FMRI_FILES) :
         /\ At(LoadFmriSteps[k])
         /\ readerCalls' = Append(readerCalls, FMRI_FILES[k])
         /\ \E ndim \in Dimensions, fifth \in FifthSizes :
              /\ args' = [args EXCEPT !.ndim = ndim,
                                      !.fifth = IF ndim = 5 THEN fifth ELSE 0]
              /\ IF ndim < 4
                 THEN /\ Raise(LoadFmriSteps[k], "ValueError", "no_time_dimension", "raise")
                      /\ UNCHANGED plots
                 ELSE IF ~ImshowAccepts(ndim - 2, fifth)
                 THEN /\ Raise(LoadFmriSteps[k], "TypeError", "invalid_image_shape",
                               "library")
                      /\ UNCHANGED plots
                 ELSE /\ plots' = plots + 1
                      /\ Advance(<<LoadFmriSteps[k]>>)
                      /\ UNCHANGED failures
    /\ UNCHANGED <<script, fallbacks, data, window, closedCount, opacity, files, writers>>

load_eeg ==
    /\ \E k \in 1..Len(EEG_FILES) :
         /\ At(LoadEegSteps[k])
         /\ readerCalls' = Append(readerCalls, EEG_FILES[k])
         /\ Advance(<<LoadEegSteps[k]>>)
    /\ plots' = plots + 1
    /\ UNCHANGED <<script, failures, fallbacks, args, data, window, closedCount, opacity, files, writers>>

print_completed ==
    /\ At("print_completed")
    /\ pc' = pc + 1
    /\ status' = "done"
    /\ trace' = Append(trace, "print_completed")
    /\ printed' = Append(printed, "[INFO] Data loading completed.")
    /\ UNCHANGED <<script, err, failures, fallbacks, args, data, effects>>

----------------------------------------------------------------------------
(* visualize_validate.py *)

PathKinds == {"file", "directory", "missing"}

VisualizeFmriSteps == <<"visualize_fmri[1]", "visualize_fmri[2]">>

VisualizeEegSteps == <<"visualize_eeg[1]", "visualize_eeg[2]", "visualize_eeg[3]">>

ShowBlocks ==
    [b \in {"visualize_t1"} \cup Range(VisualizeFmriSteps) \cup Range(VisualizeEegSteps) |->
        CASE b = "visualize_t1" -> "visualize_t1:show"
          [] b = "visualize_fmri[1]" -> "visualize_fmri[1]:show"
          [] b = "visualize_fmri[2]" -> "visualize_fmri[2]:show"
          [] b = "visualize_eeg[1]" -> "visualize_eeg[1]:plot"
          [] b = "visualize_eeg[2]" -> "visualize_eeg[2]:plot"
          [] b = "visualize_eeg[3]" -> "visualize_eeg[3]:plot"]

AnnotationBlocks ==
    [b \in Range(VisualizeEegSteps) |->
        CASE b = "visualize_eeg[1]" -> "visualize_eeg[1]:plot_annotations"
          [] b = "visualize_eeg[2]" -> "visualize_eeg[2]:plot_annotations"
          [] b = "visualize_eeg[3]" -> "visualize_eeg[3]:plot_annotations"]

\* the check with os.path.exists in place of os.path.isfile
validate_exists(kind) == kind # "missing"

\* os.path.isfile(filepath)
validate_file(kind) == kind = "file"

\* a visualize_* function: validate_file, then load and show `figures` figures;
\* on a missing file the error line is printed and the function returns
Visualize(step, path, figures, more) ==
    \E kind \in PathKinds :
        IF validate_file(kind)
        THEN /\ readerCalls' = Append(readerCalls, path)
             /\ plots' = plots + figures
             /\ Advance(<<step, ShowBlocks[step]>> \o more)
             /\ args' = [args EXCEPT !.kinds = Append(@, kind)]
             /\ UNCHANGED failures
        ELSE /\ pc' = pc + 1
             /\ status' = IF pc = Len(Steps(script)) THEN "done" ELSE "running"
             /\ trace' = Append(trace, step)
             /\ printed' = Append(printed, "[ERROR] File not found")
             /\ failures' = Append(failures, [site |-> step, cond |-> "file_not_found"])
             /\ args' = [args EXCEPT !.missing = @ \cup {path},
                                     !.kinds = Append(@, kind)]
             /\ UNCHANGED <<err, readerCalls, plots>>

visualize_t1 ==
    /\ At("visualize_t1")
    /\ Visualize("visualize_t1", T1_FILES[1], 1, <<>>)
    /\ UNCHANGED <<script, fallbacks, data, window, closedCount, opacity, files, writers>>

visualize_fmri ==
    /\ \E k \in 1..Len(FMRI_FILES) :
         /\ At(VisualizeFmriSteps[k])
         /\ Visualize(VisualizeFmriSteps[k], FMRI_FILES[k], 2, <<>>)
    /\ UNCHANGED <<script, fallbacks, data, window, closedCount, opacity, files, writers>>

visualize_eeg ==
    /\ \E k \in 1..Len(EEG_FILES), annotations \in BOOLEAN :
         /\ At(VisualizeEegSteps[k])
         /\ Visualize(VisualizeEegSteps[k], EEG_FILES[k],
                      IF annotations THEN 3 ELSE 2,
                      IF annotations THEN <<AnnotationBlocks[VisualizeEegSteps[k]]>>
                      ELSE <<>>)
    /\ UNCHANGED <<script, fallbacks, data, window, closedCount, opacity, files, writers>>

----------------------------------------------------------------------------
(* gui_visualization.py *)

SliderValues == {0, 50, 100}

\* vtkPolyDataReader on self.path without an existence check, then the scalar
\* range of the output is read without a check that the scalars exist
setup_surface ==
    /\ At("setup_surface")
    /\ readerCalls' = Append(readerCalls, MappedPath)
    /\ \E pts \in PointRows, scalars \in BOOLEAN :
         /\ surface' = [pts |-> pts,
                        scalars |-> IF scalars THEN Data([i \in 1..Len(pts) |-> 7])
                                    ELSE NoData,
                        ops |-> <<"vtkPolyDataReader">>]
         /\ IF ~scalars
            THEN /\ Raise("setup_surface", "AttributeError", "none_dereferenced", "runtime")
                 /\ UNCHANGED opacity
            ELSE /\ opacity' = 50
                 /\ Advance(<<"setup_surface">>)
                 /\ UNCHANGED failures
    /\ UNCHANGED <<script, fallbacks, args, reader, mask, iso10, lookups, image,
                   window, closedCount, files, writers, plots>>

\* visualizer.show(); app.exec_(): the event loop runs until the window is closed
app_exec ==
    /\ At("app_exec")
    /\ StartInteractor

\* the slider's valueChanged handler
update_opacity ==
    /\ script = "gui_visualization"
    /\ status = "running"
    /\ window
    /\ \E value \in SliderValues : opacity' = value
    /\ UNCHANGED <<script, ctl, failures, fallbacks, args, data,
                   window, closedCount, files, writers, readerCalls, plots>>

----------------------------------------------------------------------------

Init ==
    /\ script \in Scripts
    /\ pc = 1
    /\ status = "running"
    /\ err = NoErr
    /\ trace = <<>>
    /\ printed = <<>>
    /\ failures = <<>>
    /\ fallbacks = 0
    /\ args = NoArgs
    /\ reader = NoData
    /\ mask = NoData
    /\ iso10 = 0
    /\ surface = NoSurface
    /\ lookups = <<>>
    /\ image = NoImage
    /\ window = FALSE
    /\ closedCount = 0
    /\ opacity = 0
    /\ files = {}
    /\ writers = <<>>
    /\ readerCalls = <<>>
    /\ plots = 0

Next ==
    \/ load_t1_image
    \/ segment_t1_image
    \/ align_generate_surface
    \/ overlay_t1_and_surface
    \/ save_surface_to_file
    \/ load_nifti
    \/ segment_data
    \/ calculate_dynamic_isovalue
    \/ generate_surface
    \/ apply_laplacian_smoothing
    \/ fill_holes
    \/ remove_small_components
    \/ smooth_surface
    \/ visualize_with_vtk
    \/ export_surface
    \/ load_fmri_image
    \/ load_surface
    \/ map_fmri_to_surface
    \/ apply_smoothing
    \/ enhanced_color_mapping
    \/ visualize_fmri_on_surface
    \/ save_mapped_surface
    \/ ReadImage
    \/ Cast
    \/ N4BiasFieldCorrection
    \/ RescaleIntensity
    \/ AdaptiveHistogramEqualization
    \/ Bilateral
    \/ WriteImage
    \/ validate_ReadImage
    \/ check_and_normalize_intensity
    \/ check_orientation
    \/ check_edge_clarity
    \/ final_verification
    \/ check_files
    \/ load_t1
    \/ load_fmri
    \/ load_eeg
    \/ print_completed
    \/ visualize_t1
    \/ visualize_fmri
    \/ visualize_eeg
    \/ setup_surface
    \/ app_exec
    \/ update_opacity
    \/ CloseWindow

Spec == Init /\ [][Next]_vars

----------------------------------------------------------------------------
(* The blocks of each entry point in source order: its steps, and the       *)
(* blocks inside a step that an if or an early return guards                *)

ValidateBlocks ==
    << "validate_ReadImage", "check_and_normalize_intensity", "normalize",
       "check_orientation", "check_edge_clarity", "final_verification" >>

VisualizeBlocks ==
    << "visualize_t1", "visualize_t1:show",
       "visualize_fmri[1]", "visualize_fmri[1]:show",
       "visualize_fmri[2]", "visualize_fmri[2]:show",
       "visualize_eeg[1]", "visualize_eeg[1]:plot", "visualize_eeg[1]:plot_annotations",
       "visualize_eeg[2]", "visualize_eeg[2]:plot", "visualize_eeg[2]:plot_annotations",
       "visualize_eeg[3]", "visualize_eeg[3]:plot", "visualize_eeg[3]:plot_annotations" >>

Blocks(s) ==
    CASE s = "validate_t1" -> ValidateBlocks
      [] s = "visualize_validate" -> VisualizeBlocks
      [] OTHER -> Steps(s)

\* the blocks under an if, or after an early return
ConditionalBlocks(s) ==
    CASE s \in {"preprocess_t1", "preprocess_t1_with_validation"} ->
             {"Cast", "RescaleIntensity"}
      [] s = "validate_t1" -> {"normalize"}
      [] s = "load_data" -> Range(LoadDataSteps) \ {"check_files"}
      [] s = "visualize_validate" ->
             Range(VisualizeBlocks) \ Range(VisualizeSteps)
      [] OTHER -> {}

Position(b, blocks) == CHOOSE i \in 1..Len(blocks) : blocks[i] = b

----------------------------------------------------------------------------
(* Claims *)

LoaderScripts ==
    {"align_brain_t1_surface", "map_fmri_and_brain", "surface_reconstruction",
     "preprocess_t1", "preprocess_t1_with_validation"}

WindowScripts ==
    {"align_brain_t1_surface", "map_fmri_and_brain", "surface_reconstruction"}

\* C1: when the path given to load_t1_image, load_fmri_image, load_nifti,
\* preprocess_t1 or preprocess_t1_with_validation does not exist, the load
\* raises FileNotFoundError and no library reader has been invoked on the path.
C1_MissingPathRaisesBeforeReader ==
    (script \in LoaderScripts /\ Len(trace) >= 1 /\ ~args.exists)
        => (err.exc = "FileNotFoundError" /\ readerCalls = <<>>)

\* C2 as stated: once the run has met a failure no later step executes, and
\* no fallback value is ever substituted for a failed result.
C2_NoStepAfterFailure ==
    [][(failures # <<>> => trace' = trace) /\ fallbacks' = fallbacks]_vars

\* C2 as amended: once a step has raised an exception that leaves the step,
\* nothing more happens in the run; a fallback value is substituted only by
\* map_fmri_to_surface, and only map_fmri_and_brain (after a failed lookup)
\* and visualize_validate (after a rejected path) go on after a failure.
C2_NoStepAfterUncaughtException ==
    [][ /\ status = "aborted" => UNCHANGED vars
        /\ fallbacks' # fallbacks => At("map_fmri_to_surface")
        /\ (failures # <<>> /\ trace' # trace)
               => script \in {"map_fmri_and_brain", "visualize_validate"} ]_vars

C2_Witness ==
    /\ status = "aborted"
    /\ err.exc # "none"
    /\ pc < Len(Steps(script))
    /\ fallbacks = 0

FourConditions ==
    {"file_not_found", "missing_scalars", "no_surface", "unsupported_format"}

\* C3 as stated: an error raised by a raise statement of the repository is a
\* missing input path, missing scalar data, no generated surface or an
\* unsupported export format.
C3_OnlyFourConditions ==
    err.origin = "raise" => err.cond \in FourConditions

\* C3 as amended: the raise statements of the repository raise for those four
\* conditions, for fMRI data without a time dimension (load_fmri) and for an
\* unsupported view (check_orientation), and for nothing else.
C3_RaisedConditions ==
    err.origin = "raise" =>
        err.cond \in FourConditions \cup {"no_time_dimension", "unsupported_view"}

C3_Witness ==
    /\ err.origin = "raise"
    /\ err.site = "check_orientation"
    /\ err.cond = "unsupported_view"
    /\ status = "aborted"

\* C4 as stated: every scalar of the output of segment_t1_image and segment_data
\* lies within [lower_threshold, upper_threshold].
C4_OutputWithinThresholds ==
    mask.has => \A i \in 1..Len(mask.v) : args.lo <= mask.v[i] /\ mask.v[i] <= args.hi

\* C4 as amended: the output of segment_t1_image and segment_data is a binary
\* mask: one value per input voxel, 1 where the voxel lies within
\* [lower_threshold, upper_threshold] and 0 elsewhere.
C4_OutputIsBinaryMask ==
    mask.has =>
        /\ Len(mask.v) = Len(reader.v)
        /\ \A i \in 1..Len(mask.v) :
             mask.v[i] = IF args.lo <= reader.v[i] /\ reader.v[i] <= args.hi
                         THEN 1 ELSE 0

C4_Witness ==
    /\ mask.has
    /\ args.lo <= args.hi
    /\ \E i \in 1..Len(mask.v) : mask.v[i] = 1 /\ reader.v[i] > 1
    /\ \E i \in 1..Len(mask.v) : mask.v[i] = 0 /\ reader.v[i] > args.hi

\* C5 as stated: a run that completes has executed every block of its entry
\* point, in source order, whatever the inputs were.
C5_OneFixedSequence ==
    status = "done" => trace = Blocks(script)

\* C5 as amended: the blocks a run executes are in source order, each at most
\* once; a run that completes has executed every block that is not under an
\* if or behind an early return, and may have skipped those that are.
C5_FixedOrderConditionalBlocks ==
    /\ \A i \in 1..Len(trace) : trace[i] \in Range(Blocks(script))
    /\ \A i, j \in 1..Len(trace) :
         i < j => Position(trace[i], Blocks(script)) < Position(trace[j], Blocks(script))
    /\ status = "done" =>
         Range(Blocks(script)) \ ConditionalBlocks(script) \subseteq Range(trace)

C5_Witness ==
    /\ status = "done"
    /\ script = "preprocess_t1"
    /\ ~args.normalize
    /\ "RescaleIntensity" \notin Range(trace)
    /\ "AdaptiveHistogramEqualization" \in Range(trace)

\* C6: in align_brain_t1_surface, map_fmri_and_brain and surface_reconstruction
\* a file is written only while no window is open and after the user has
\* closed a window.
C6_WriteOnlyAfterWindowClosed ==
    [][(script \in WindowScripts /\ files' # files)
           => (~window /\ ~window' /\ closedCount >= 1)]_vars

C6_Witness ==
    /\ script \in WindowScripts
    /\ files # {}
    /\ closedCount = 1
    /\ ~window

Rescaled(img) ==
    \E i, j, k \in 1..Len(img.ops) :
        /\ i < j /\ j < k
        /\ img.ops[i] = "N4BiasFieldCorrection"
        /\ img.ops[j] = "RescaleIntensity[0,255]"
        /\ img.ops[k] = "Bilateral"

\* C7: the image preprocess_t1 and preprocess_t1_with_validation write has been
\* rescaled to [0, 255] between bias-field correction and bilateral smoothing
\* exactly when normalize is true.
C7_NormalizeDecidesRescaling ==
    script \in {"preprocess_t1", "preprocess_t1_with_validation"} =>
        \A f \in files : Rescaled(f.content) <=> args.normalize

\* C8: a successful run of preprocess_t1_with_validation has written
\* intermediate images besides the final image at output_path.
C8_IntermediateImagesWritten ==
    (script = "preprocess_t1_with_validation" /\ status = "done") =>
        \E f \in files : f.path # OutputPath

\* C9: calculate_dynamic_isovalue returns 0.6 x (max - min) of the scalar range
\* of the segmented data.
C9_IsovalueIsSixtyPercentOfRange ==
    (script = "surface_reconstruction" /\ "calculate_dynamic_isovalue" \in Range(trace)
       /\ mask.has)
        => iso10 = 6 * (SeqMax(mask.v) - SeqMin(mask.v))

Mapped ==
    /\ script = "map_fmri_and_brain"
    /\ "map_fmri_to_surface" \in Range(trace)
    /\ surface.scalars.has

\* C10 as stated: after map_fmri_to_surface the surface holds one scalar per
\* point, in point order: the fMRI scalar at the index the lookup returned,
\* or 0.0 where the lookup raised RuntimeError.
C10_ScalarsAreFmriScalars ==
    Mapped =>
        /\ Len(surface.scalars.v) = Len(surface.pts)
        /\ \A i \in 1..Len(surface.pts) :
             surface.scalars.v[i] =
                 IF lookups[i] = 0 THEN 0 ELSE reader.v[lookups[i]]

\* C10 as amended: the same, the value being the fMRI scalar converted to a
\* 32-bit float, the element type of the array the values are inserted in.
C10_ScalarsAreFloat32FmriScalars ==
    Mapped =>
        /\ Len(surface.scalars.v) = Len(surface.pts)
        /\ Len(lookups) = Len(surface.pts)
        /\ \A i \in 1..Len(surface.pts) :
             surface.scalars.v[i] =
                 IF lookups[i] = 0 THEN 0 ELSE ToFloat32(reader.v[lookups[i]])

C10_Witness ==
    /\ Mapped
    /\ Len(surface.pts) = 2
    /\ lookups[1] = 0
    /\ lookups[2] = 2
    /\ surface.scalars.v[1] = 0
    /\ surface.scalars.v[2] = 7

Exported ==
    /\ script = "surface_reconstruction"
    /\ "export_surface" \in Range(trace)

\* C11: export_surface accepts "vtk" and "stl" in any letter case and writes
\* exactly one file at file_path with the matching writer (vtkPolyDataWriter,
\* vtkSTLWriter); for any other format it raises ValueError, no writer has been
\* created and no file is written.
C11_ExportWritesOneFileOrRaises ==
    Exported =>
        IF args.fmt \in {"vtk", "VTK", "stl", "Stl"}
        THEN LET w == IF args.fmt \in {"vtk", "VTK"} THEN "vtkPolyDataWriter"
                      ELSE "vtkSTLWriter"
             IN  /\ err = NoErr
                 /\ writers = <<w>>
                 /\ files = {[path |-> SurfacePath, writer |-> w, content |-> surface]}
        ELSE /\ status = "aborted"
             /\ err.exc = "ValueError"
             /\ err.cond = "unsupported_format"
             /\ writers = <<>>
             /\ files = {}

C11_Witness ==
    /\ Exported
    /\ args.fmt = "Stl"
    /\ writers = <<"vtkSTLWriter">>
    /\ Cardinality(files) = 1
    /\ Len(surface.pts) >= 1

Checked ==
    /\ script = "validate_t1"
    /\ "check_and_normalize_intensity" \in Range(trace)

\* C12: the image check_and_normalize_intensity returns has every intensity
\* within [lower_bound, upper_bound]: it is the input image, unchanged, when
\* the input's minimum and maximum lie within the bounds, and otherwise a
\* normalized image whose minimum is lower_bound and whose maximum is
\* upper_bound, also when the input's minimum equals its maximum.
C12_NormalizedWithinBounds ==
    Checked =>
        /\ ~IsNaN(image)
        /\ \A i \in 1..Len(image.px) :
              /\ LowerBound * image.den <= image.px[i]
              /\ image.px[i] <= UpperBound * image.den
        /\ "normalize" \in Range(trace) =>
              /\ SeqMin(image.px) = LowerBound * image.den
              /\ SeqMax(image.px) = UpperBound * image.den
        /\ "normalize" \notin Range(trace) => image.ops = <<"ReadImage">>

\* C13: when load_fmri returns, the data it loaded has exactly 4 dimensions;
\* otherwise it has raised ValueError and has displayed no slice.
C13_LoadFmriEnsuresFourDimensions ==
    (script = "load_data" /\ args.ndim # 0) =>
        IF status # "aborted"
        THEN args.ndim = 4
        ELSE /\ err.exc = "ValueError"
             /\ err.cond = "no_time_dimension"
             /\ plots = pc - 2

Accepted == {i \in 1..Len(args.kinds) : args.kinds[i] = "file"}

\* C14: in visualize_validate, validate_file accepts a path exactly when it
\* names an existing file, and otherwise prints an error without raising; a
\* visualize_* function whose path was rejected loads nothing and plots
\* nothing; main visits T1_FILE, the entries of FMRI_FILES and the entries of
\* EEG_FILES in that order whichever files are missing.
C14_ValidateFileGuardsEveryVisit ==
    script = "visualize_validate" =>
        /\ err = NoErr
        /\ status # "aborted"
        /\ Len(args.kinds) = pc - 1
        /\ status = "done" <=> Len(args.kinds) = Len(VisualizeSteps)
        /\ SelectSeq(trace, LAMBDA b : b \in Range(VisualizeSteps))
               = SubSeq(VisualizeSteps, 1, Len(args.kinds))
        /\ \A i \in 1..Len(args.kinds) :
               i \in Accepted <=> ShowBlocks[VisualizeSteps[i]] \in Range(trace)
        /\ Range(readerCalls) = {AllFiles[i] : i \in Accepted}
        /\ Len(readerCalls) = Cardinality(Accepted)
        /\ \A a, b \in 1..Len(readerCalls) :
               a < b => Position(readerCalls[a], AllFiles) < Position(readerCalls[b], AllFiles)
        /\ Len(printed) = Len(args.kinds) - Cardinality(Accepted)
        /\ plots = 0 <=> Accepted = {}

C14_Witness ==
    /\ script = "visualize_validate"
    /\ status = "done"
    /\ args.kinds = <<"missing", "directory", "file", "file", "missing", "file">>
    /\ readerCalls = <<FMRI_FILES[2], EEG_FILES[1], EEG_FILES[3]>>
    /\ Len(printed) = 3

\* the position of the save or export step among the steps of a script
SavePosition(s) ==
    CHOOSE i \in 1..Len(Steps(s)) :
        Steps(s)[i] \in {"save_surface_to_file", "export_surface", "save_mapped_surface"}

\* a step of one of the three scripts: nothing follows an abort, and an abort
\* leaves the message printed once, steps 1..k executed and, unless k is
\* after the save/export step, no writer created and no file written
AbortIsHandledOnce ==
    script \in WindowScripts =>
        /\ status = "aborted" => UNCHANGED vars
        /\ status' = "aborted" =>
              /\ err'.exc # "none"
              /\ err'.site = Steps(script)[pc']
              /\ printed' = <<"[ERROR]">>
              /\ trace' = SubSeq(Steps(script), 1, pc')
              /\ pc' <= SavePosition(script) => (files' = {} /\ writers' = <<>>)

\* C15: in align_brain_t1_surface, surface_reconstruction and map_fmri_and_brain,
\* when step k raises, the handler prints the exception once with the [ERROR]
\* prefix, the steps executed are steps 1..k and nothing executes afterwards,
\* and no file has been written when k is not after the save/export step.
C15_TopLevelHandlerPrintsOnceAndStops == [][AbortIsHandledOnce]_vars

C15_Witness ==
    /\ script = "surface_reconstruction"
    /\ status = "aborted"
    /\ err.site = "generate_surface"
    /\ printed = <<"[ERROR]">>
    /\ trace = SubSeq(SurfrecSteps, 1, 4)
    /\ files = {}

Completed == "[INFO] Data loading completed." \in Range(printed)

\* C16: load_data loads nothing and prints the missing paths when any of the
\* six files is missing; when none is missing it loads the T1 file, then the
\* fMRI files in list order, then the EEG files in list order, and prints
\* "Data loading completed" only after the last of them.
C16_LoadDataAllOrNothing ==
    (script = "load_data" /\ pc > 1) =>
        /\ args.missing # {} =>
              /\ readerCalls = <<>>
              /\ plots = 0
              /\ printed = <<"[ERROR] The following files were not found">>
              /\ status = "done"
        /\ readerCalls = SubSeq(AllFiles, 1, Len(readerCalls))
        /\ Completed => (readerCalls = AllFiles /\ args.missing = {})
        /\ (args.missing = {} /\ status = "done") => Completed

C16_WitnessCompleted ==
    /\ script = "load_data"
    /\ Completed
    /\ readerCalls = AllFiles
    /\ plots = Len(AllFiles)

C16_Witness ==
    /\ script = "load_data"
    /\ args.missing = {EEG_FILES[3]}
    /\ readerCalls = <<>>
    /\ status = "done"

Reconstructed ==
    /\ script \in {"surface_reconstruction", "align_brain_t1_surface"}
    /\ Range(trace) \cap {"generate_surface", "align_generate_surface"} # {}

\* C17: surface_reconstruction and align_brain_t1_surface never write a surface
\* without points: when marching cubes yields no point the run aborts with the
\* "no surface generated" error, so that nothing is smoothed, shown or saved.
C17_NoZeroPointSurfaceWritten ==
    /\ script \in {"surface_reconstruction", "align_brain_t1_surface"} =>
          \A f \in files : Len(f.content.pts) > 0
    /\ (Reconstructed /\ Len(MarchingCubes(mask, iso10)) = 0) =>
          /\ status = "aborted"
          /\ err.cond = "no_surface"
          /\ files = {}
          /\ closedCount = 0

\* the dataset whose scalars the step `site` reads holds no scalars array
ScalarsMissingAt(site) ==
    CASE site = "load_fmri_image" -> args.exists /\ ~reader.has
      [] site = "calculate_dynamic_isovalue" -> ~mask.has
      [] site \in {"enhanced_color_mapping", "setup_surface"} -> ~surface.scalars.has
      [] OTHER -> FALSE

\* C18: load_fmri_image, calculate_dynamic_isovalue, enhanced_color_mapping
\* and setup_surface, given a dataset without point scalars, report it as a
\* ValueError for missing scalar data raised by the code, not as a failed
\* dereference of the absent array.
C18_MissingScalarsReportedAsValueError ==
    (status = "aborted" /\ ScalarsMissingAt(err.site)) =>
        /\ err.exc = "ValueError"
        /\ err.cond = "missing_scalars"
        /\ err.origin = "raise"

\* a step of map_fmri_to_surface: the surface after the call is the dataset
\* passed in (no new dataset in its provenance), with the same points and one
\* scalar per point set on it, and the fMRI dataset is as it was
MapsInPlace ==
    At("map_fmri_to_surface") =>
        /\ surface'.ops = surface.ops
        /\ surface'.pts = surface.pts
        /\ surface'.scalars.has
        /\ Len(surface'.scalars.v) = Len(surface.pts)
        /\ reader' = reader

\* C19: map_fmri_to_surface returns the surface object it was given, with its
\* active point scalars replaced in place and its points unchanged, and leaves
\* the fMRI dataset unchanged.
C19_MapReturnsTheSurfaceGiven == [][MapsInPlace]_vars

C19_Witness ==
    /\ script = "map_fmri_and_brain"
    /\ pc = 4
    /\ surface.ops = <<"vtkPolyDataReader">>
    /\ Len(surface.pts) = 2
    /\ surface.scalars = Data(<<7, 0>>)
    /\ reader = Data(<<0, 7>>)

====
